---- MODULE Spec2Model ----
(***************************************************************************)
(* Model of images/dnsmasq/validate_dynamic_deps.py: the walk over the     *)
(* NEEDED entries of a binary inside an extracted container image.         *)
(*                                                                         *)
(* A pathlib path is the sequence of its parts; an absolute path starts    *)
(* with the part "/".  A location of the host filesystem is the sequence   *)
(* of directory names from the host root (<<>> is the host root).          *)
(***************************************************************************)
EXTENDS Integers, Sequences, FiniteSets, TLC

\* Number of distinct library names the image and its NEEDED entries draw on.
NumLibs == 2

AllLibNames == <<"liba.so", "libb.so", "libc.so", "libd.so">>

LibNames == {AllLibNames[i] : i \in 1..NumLibs}

\* The versioned file a library link points at (libc.so.6 -> libc-2.28.so).
Real(n) == n \o ".1"

\* A second copy of a library, in another directory of the image.
Alt(n) == n \o ".2"

TargetArch == "x86-64"

OtherArch == "ARM aarch64"

Front(s) == SubSeq(s, 1, Len(s) - 1)

Last(s) == s[Len(s)]

Range(s) == {s[i] : i \in 1..Len(s)}

IsPrefix(p, s) == Len(p) <= Len(s) /\ SubSeq(s, 1, Len(p)) = p

-----------------------------------------------------------------------------
(* The inputs: the image's content and the command line.                   *)

\* NEEDED lists of a library: at most one entry.
NeededLists == {<<>>} \cup {<<n>> : n \in LibNames}

\* NEEDED lists of the target binary: at most two distinct entries.
TargetNeededLists ==
    NeededLists
    \cup {s \in {<<n, m>> : n \in LibNames, m \in LibNames} : s[1] # s[2]}

AltNeeded == [i \in 1..NumLibs |-> AllLibNames[i]]

\* What the image holds for library name n:
\*   absent      nothing
\*   file        lib/n is the ELF file itself
\*   rel         lib/n -> n.1 (relative link), lib/n.1 the ELF file
\*   abs         lib/n -> /lib/n.1 (absolute link), lib/n.1 the ELF file; the
\*               host has a /lib/n.1 of its own
\*   abs_nohost  as abs, the host has no /lib/n.1
\*   dotdot      lib/n -> /../lib/n.1, lib/n.1 the ELF file, host has /lib/n.1
\*   two         as rel with the target's architecture, and opt/n -> n.2,
\*               opt/n.2 an ELF file of the other architecture
\* An ELF file of the other architecture needs every library name, and so
\* does the ELF file behind an abs_nohost link.
LibEntries ==
    {[kind |-> k, tag |-> TargetArch, needed |-> <<>>] :
        k \in {"absent", "file", "abs", "dotdot"}}
    \cup {[kind |-> k, tag |-> TargetArch, needed |-> nd] :
            k \in {"rel", "two"}, nd \in NeededLists}
    \cup {[kind |-> "rel", tag |-> OtherArch, needed |-> AltNeeded],
          [kind |-> "abs_nohost", tag |-> TargetArch, needed |-> AltNeeded]}

IMAGE_DIR == ".test-images"

\* replace_img_special_chars("img:tag")
container_name == "img_tag"

\* The directory the script is started in.
CWD == <<"w">>

target_binary_arg == <<"/", "usr", "sbin", "dnsmasq">>

VARIABLES
    libs,               \* the image: library name -> LibEntries
    targetNeeded,       \* the image: NEEDED list of the target binary
    extracted,          \* the image's files are under output_dir
    pc,                 \* "start", "loop", "for", "exited", "crashed"
    error,              \* the exception that ended the run, or "none"
    target_binary_arch,
    deps,               \* the work queue (a list, popped at its end)
    seen,
    missing,
    wrong_arch,         \* path -> tag
    current,
    dep_paths,          \* candidates of current the for loop has not visited
    dep_path,           \* the for loop's variable, after line 135
    exit_code,          \* -1 before line 151
    cand,               \* history: the candidate the for loop last took
    last_file,          \* history: the last run of `file`: path and stdout
    toolFailed,         \* history: an external process failed or was absent
    searches,           \* history: name -> number of filesystem searches
    skipped,            \* history: names popped while already in seen
    examined,           \* history: candidates whose tag was read
    expanded            \* history: candidates whose NEEDED were enqueued

vars == <<libs, targetNeeded, extracted, pc, error, target_binary_arch, deps,
          seen, missing, wrong_arch, current, dep_paths, dep_path, exit_code,
          cand, last_file, toolFailed, searches, skipped, examined, expanded>>

NoPath == <<>>

NoCall == [ran |-> FALSE, path |-> NoPath, stdout |-> <<>>]

-----------------------------------------------------------------------------
(* pathlib                                                                 *)

relative_to_root(path) ==
    IF path # <<>> /\ Head(path) = "/" THEN Tail(path) ELSE path

joinpath(base, path) ==
    IF path # <<>> /\ Head(path) = "/" THEN path ELSE base \o path

output_dir == <<IMAGE_DIR, container_name>>

\* The extraction root as a location of the host.
RootAbs == CWD \o output_dir

-----------------------------------------------------------------------------
(* The filesystem: the host's own files and the image under output_dir.    *)
(* A filesystem fs is a record: ext (the image has been extracted), libs   *)
(* and target (the image's content).                                       *)

None == [kind |-> "none", tag |-> "", needed |-> <<>>, target |-> <<>>]

Dir == [kind |-> "dir", tag |-> "", needed |-> <<>>, target |-> <<>>]

Elf(t, nd) == [kind |-> "elf", tag |-> t, needed |-> nd, target |-> <<>>]

Link(t) == [kind |-> "link", tag |-> "", needed |-> <<>>, target |-> t]

HasReal(k) == k \in {"rel", "abs", "abs_nohost", "dotdot", "two"}

LinkTarget(n, k) ==
    CASE k = "abs" -> <<"/", "lib", Real(n)>>
      [] k = "abs_nohost" -> <<"/", "lib", Real(n)>>
      [] k = "dotdot" -> <<"/", "..", "lib", Real(n)>>
      [] OTHER -> <<Real(n)>>

\* The node of the image at rel, a location relative to the image's root.
ImageNode(fs, rel) ==
    IF rel \in {<<>>, <<"lib">>, <<"opt">>, <<"usr">>, <<"usr", "sbin">>}
    THEN Dir
    ELSE IF rel = relative_to_root(target_binary_arg)
    THEN Elf(TargetArch, fs.target)
    ELSE IF Len(rel) # 2 THEN None
    ELSE IF rel[1] = "lib" /\ rel[2] \in LibNames
    THEN LET e == fs.libs[rel[2]] IN
         IF e.kind = "absent" THEN None
         ELSE IF e.kind = "file" THEN Elf(e.tag, e.needed)
         ELSE Link(LinkTarget(rel[2], e.kind))
    ELSE IF rel[1] = "lib" /\ \E n \in LibNames : rel[2] = Real(n)
    THEN LET m == CHOOSE x \in LibNames : rel[2] = Real(x) IN
         IF HasReal(fs.libs[m].kind) THEN Elf(fs.libs[m].tag, fs.libs[m].needed)
         ELSE None
    ELSE IF rel[1] = "opt" /\ rel[2] \in LibNames
    THEN IF fs.libs[rel[2]].kind = "two" THEN Link(<<Alt(rel[2])>>) ELSE None
    ELSE IF rel[1] = "opt" /\ \E n \in LibNames : rel[2] = Alt(n)
    THEN LET m == CHOOSE x \in LibNames : rel[2] = Alt(x) IN
         IF fs.libs[m].kind = "two" THEN Elf(OtherArch, AltNeeded) ELSE None
    ELSE None

\* Every location of the image that can hold a node.
ImageLocs ==
    {<<"lib">>, <<"opt">>, <<"usr">>, <<"usr", "sbin">>,
     relative_to_root(target_binary_arg)}
    \cup {<<"lib", n>> : n \in LibNames}
    \cup {<<"lib", Real(n)>> : n \in LibNames}
    \cup {<<"opt", n>> : n \in LibNames}
    \cup {<<"opt", Alt(n)>> : n \in LibNames}

\* The node at host location loc in filesystem fs.
NodeAt(fs, loc) ==
    IF IsPrefix(loc, RootAbs) THEN Dir
    ELSE IF IsPrefix(RootAbs, loc)
    THEN IF fs.ext THEN ImageNode(fs, SubSeq(loc, Len(RootAbs) + 1, Len(loc)))
         ELSE None
    ELSE IF loc = <<"lib">> THEN Dir
    ELSE IF Len(loc) = 2 /\ loc[1] = "lib"
            /\ \E n \in LibNames :
                 loc[2] = Real(n) /\ fs.libs[n].kind \in {"abs", "dotdot"}
    THEN Elf(TargetArch, <<>>)
    ELSE None

NoEnt == <<"/ENOENT">>

LinkFuel == Cardinality(LibNames) + 1

\* The kernel's path walk from location `at` along `parts`, with `rootLoc`
\* as the root directory; follow: the last part is followed when a link.
RECURSIVE Walk(_, _, _, _, _, _)
Walk(fs, rootLoc, at, parts, follow, fuel) ==
    IF parts = <<>> THEN at
    ELSE LET c == Head(parts)
             rest == Tail(parts)
         IN IF c = "/" THEN Walk(fs, rootLoc, rootLoc, rest, follow, fuel)
            ELSE IF NodeAt(fs, at).kind # "dir" THEN NoEnt
            ELSE IF c = ".."
            THEN Walk(fs, rootLoc, IF at = rootLoc THEN at ELSE Front(at),
                      rest, follow, fuel)
            ELSE LET child == Append(at, c)
                     node == NodeAt(fs, child)
                 IN IF node.kind = "none" THEN NoEnt
                    ELSE IF node.kind = "link" /\ (rest # <<>> \/ follow)
                    THEN IF fuel = 0 THEN NoEnt
                         ELSE Walk(fs, rootLoc, at, node.target \o rest,
                                   follow, fuel - 1)
                    ELSE Walk(fs, rootLoc, child, rest, follow, fuel)

\* A process with working directory cwd opens path.
Open(fs, cwd, path, follow) == Walk(fs, <<>>, cwd, path, follow, LinkFuel)

-----------------------------------------------------------------------------
(* The external tools.  A tool run is "ok", "fail" (it exits with an error *)
(* and prints nothing on stdout) or "absent" (no such program).            *)

Ok(v) == [raise |-> "none", value |-> v]

Raise(e) == [raise |-> e, value |-> <<>>]

\* stdout of `file path`, cut at its commas.  `file` does not follow a link
\* and exits with 0 also when it cannot open the path.
FileStdout(fs, cwd, path) ==
    LET loc == Open(fs, cwd, path, FALSE)
        node == IF loc = NoEnt THEN None ELSE NodeAt(fs, loc)
    IN CASE node.kind = "elf" ->
              <<"ELF 64-bit LSB shared object", node.tag, "version 1 (SYSV)",
                "dynamically linked">>
         [] node.kind = "dir" -> <<"directory">>
         [] node.kind = "link" -> <<"symbolic link">>
         [] OTHER -> <<"cannot open (No such file or directory)">>

\* str.split(","): the empty string splits into one empty field.
Split(stdout) == IF stdout = <<>> THEN <<"">> ELSE stdout

\* The working directory a child process gets from cwd=...
ChildCwd(fs, cwd) == Open(fs, <<>>, joinpath(CWD, cwd), TRUE)

detect_architecture(fs, fileTool, cwd, target_binary) ==
    IF fileTool = "absent"
    THEN [raise |-> "FileNotFoundError", value |-> "", stdout |-> <<>>]
    ELSE LET stdout == FileStdout(fs, ChildCwd(fs, cwd), target_binary)
             fields == Split(stdout)
         IN IF Len(fields) = 0
            THEN [raise |-> "none", value |-> "", stdout |-> stdout]
            ELSE IF Len(fields) < 2
            THEN [raise |-> "IndexError", value |-> "", stdout |-> stdout]
            ELSE [raise |-> "none", value |-> fields[2], stdout |-> stdout]

\* failed: objdump exited with an error; its stdout is then empty.
detect_dependencies(fs, objTool, cwd, target_binary) ==
    IF objTool = "absent"
    THEN [raise |-> "FileNotFoundError", value |-> <<>>, failed |-> TRUE]
    ELSE LET loc == Open(fs, ChildCwd(fs, cwd), target_binary, TRUE)
             node == IF loc = NoEnt THEN None ELSE NodeAt(fs, loc)
         IN IF objTool = "ok" /\ node.kind = "elf"
            THEN [raise |-> "none", value |-> node.needed, failed |-> FALSE]
            ELSE [raise |-> "none", value |-> <<>>, failed |-> TRUE]

\* Path.glob("**/name"): a match is kept when exists() holds of it, which
\* follows links from the host's root.
find_dependencies_with_name(fs, root_dir, dependency_name) ==
    {root_dir \o rel :
        rel \in {r \in ImageLocs :
                    /\ Last(r) = dependency_name
                    /\ Open(fs, CWD, root_dir \o r, TRUE) # NoEnt}}

is_symlink(fs, path) ==
    LET loc == Open(fs, CWD, path, FALSE)
    IN loc # NoEnt /\ NodeAt(fs, loc).kind = "link"

readlink(fs, path) == NodeAt(fs, Open(fs, CWD, path, FALSE)).target

\* Path.resolve(): the absolute path of the file the path leads to.
resolve(fs, path) == <<"/">> \o Open(fs, CWD, path, TRUE)

relative_to(path, base) ==
    IF IsPrefix(base, path)
    THEN Ok(SubSeq(path, Len(base) + 1, Len(path)))
    ELSE Raise("ValueError")

resolve_container_link(fs, root_dir, link) ==
    LET resolved == readlink(fs, link)
    IN IF Head(resolved) = "/"
       THEN Ok(joinpath(root_dir, relative_to_root(resolved)))
       ELSE relative_to(resolve(fs, link), resolve(fs, root_dir))

-----------------------------------------------------------------------------
(* main                                                                    *)

\* The filesystem of the current state.
Fs == [ext |-> extracted, libs |-> libs, target |-> targetNeeded]

Put(f, k, v) == [x \in DOMAIN f \cup {k} |-> IF x = k THEN v ELSE f[x]]

Init ==
    /\ libs = [n \in LibNames |->
                 [kind |-> "absent", tag |-> TargetArch, needed |-> <<>>]]
    /\ targetNeeded = <<>>
    /\ extracted = FALSE
    /\ pc = "start"
    /\ error = "none"
    /\ target_binary_arch = ""
    /\ deps = <<>>
    /\ seen = {}
    /\ missing = {}
    /\ wrong_arch = <<>>
    /\ current = ""
    /\ dep_paths = {}
    /\ dep_path = NoPath
    /\ exit_code = -1
    /\ cand = NoPath
    /\ last_file = NoCall
    /\ toolFailed = FALSE
    /\ searches = [n \in LibNames |-> 0]
    /\ skipped = {}
    /\ examined = {}
    /\ expanded = {}

\* Lines 105-114 once the tools have answered: a is detect_architecture's
\* result for the target, d detect_dependencies'.
StartWith(docker, fileTool, a, d) ==
    IF docker = "absent"
    THEN /\ pc' = "crashed"
         /\ error' = "FileNotFoundError"
         /\ toolFailed' = TRUE
         /\ UNCHANGED <<extracted, target_binary_arch, deps, last_file>>
    ELSE /\ extracted' = (docker = "ok")
         /\ last_file' = IF fileTool = "absent" THEN last_file
                         ELSE [ran |-> TRUE,
                               path |-> relative_to_root(target_binary_arg),
                               stdout |-> a.stdout]
         /\ IF a.raise # "none"
            THEN /\ pc' = "crashed"
                 /\ error' = a.raise
                 /\ toolFailed' = (docker = "fail" \/ fileTool = "absent")
                 /\ UNCHANGED <<target_binary_arch, deps>>
            ELSE /\ target_binary_arch' = a.value
                 /\ toolFailed' = (docker = "fail" \/ d.failed)
                 /\ pc' = IF d.raise # "none" THEN "crashed" ELSE "loop"
                 /\ error' = d.raise
                 /\ deps' = d.value

\* Lines 105-114: extract the image, read the target's tag and NEEDED list.
\* The image's content is an input: it is drawn when docker delivers it.
\* When a tool is absent or objdump fails on the target, the libraries of
\* the image are never looked at, and only the image without any is drawn.
Start ==
    /\ pc = "start"
    /\ \E docker \in {"ok", "fail", "absent"}, fileTool \in {"ok", "absent"},
          objTool \in {"ok", "fail", "absent"} :
        \E l \in IF docker = "ok" /\ fileTool = "ok" /\ objTool = "ok"
                 THEN [LibNames -> LibEntries] ELSE {libs},
           t \in IF docker = "ok" THEN TargetNeededLists ELSE {targetNeeded} :
            /\ libs' = l
            /\ targetNeeded' = t
            /\ \E a \in {detect_architecture(
                             [ext |-> docker = "ok", libs |-> l, target |-> t],
                             fileTool, output_dir,
                             relative_to_root(target_binary_arg))},
                  d \in {detect_dependencies(
                             [ext |-> docker = "ok", libs |-> l, target |-> t],
                             objTool, output_dir,
                             relative_to_root(target_binary_arg))} :
                StartWith(docker, fileTool, a, d)
    /\ UNCHANGED <<seen, missing, wrong_arch, current, dep_paths, dep_path,
                   exit_code, cand, searches, skipped, examined, expanded>>

\* Line 122 without the membership test.
Skip_Never(name, seenNames) == FALSE

\* Line 122.
Skip(name, seenNames) == name \in seenNames

\* Line 124 left out.
SeenAfter_Forgets(seenNames, name) == seenNames

\* Line 124.
SeenAfter(seenNames, name) == seenNames \cup {name}

\* Lines 128-130 without line 129.
MissingAfter_Forgets(missingNames, name, found) == missingNames

\* Lines 128-130.
MissingAfter(missingNames, name, found) ==
    IF found = {} THEN missingNames \cup {name} ELSE missingNames

\* Lines 119-130: pop a name; skip it when seen, else search for it.
Pop ==
    /\ pc = "loop"
    /\ deps # <<>>
    /\ LET name == Last(deps)
           found == find_dependencies_with_name(Fs, output_dir, name)
       IN /\ current' = name
          /\ deps' = Front(deps)
          /\ IF Skip(name, seen)
             THEN /\ skipped' = skipped \cup {name}
                  /\ UNCHANGED <<pc, seen, missing, dep_paths, searches>>
             ELSE /\ seen' = SeenAfter(seen, name)
                  /\ searches' = [searches EXCEPT ![name] = @ + 1]
                  /\ missing' = MissingAfter(missing, name, found)
                  /\ dep_paths' = found
                  /\ pc' = IF found = {} THEN "loop" ELSE "for"
                  /\ UNCHANGED skipped
    /\ UNCHANGED <<libs, targetNeeded, extracted, error, target_binary_arch,
                   wrong_arch, dep_path, exit_code, cand, last_file,
                   toolFailed, examined, expanded>>

\* Lines 139-141 without the comparison.
Expands_Always(dep_arch, target_arch) == TRUE

\* Lines 139-141: a candidate is expanded when its tag is the target's.
Expands(dep_arch, target_arch) == dep_arch = target_arch

\* Lines 137-144 for the path p of a candidate: a is detect_architecture's
\* result for p, d detect_dependencies', rest the candidates left.
ExamineWith(p, a, d, rest) ==
    /\ dep_path' = p
    /\ last_file' = [ran |-> TRUE, path |-> p, stdout |-> a.stdout]
    /\ IF a.raise # "none"
       THEN /\ pc' = "crashed"
            /\ error' = a.raise
            /\ UNCHANGED <<dep_paths, toolFailed, wrong_arch, deps, examined,
                           expanded>>
       ELSE /\ examined' = examined \cup
                   {[name |-> current, path |-> p, arch |-> a.value]}
            /\ IF ~Expands(a.value, target_binary_arch)
               THEN /\ wrong_arch' = Put(wrong_arch, p, a.value)
                    /\ dep_paths' = rest
                    /\ pc' = IF rest = {} THEN "loop" ELSE "for"
                    /\ UNCHANGED <<error, toolFailed, deps, expanded>>
               ELSE /\ toolFailed' = (toolFailed \/ d.failed)
                    /\ deps' = deps \o d.value
                    /\ expanded' = expanded \cup
                         {[name |-> current, path |-> p, arch |-> a.value,
                           needed |-> d.value]}
                    /\ dep_paths' = rest
                    /\ pc' = IF rest = {} THEN "loop" ELSE "for"
                    /\ UNCHANGED <<error, wrong_arch>>

\* Lines 132-144: one pass of the for loop, on any candidate not yet visited.
\* `file` and objdump ran at Start, so neither is absent here; objdump may
\* still fail on the file it is given.
Examine ==
    /\ pc = "for"
    /\ \E c \in dep_paths, objTool \in {"ok", "fail"} :
        \E r \in {IF is_symlink(Fs, c)
                  THEN resolve_container_link(Fs, output_dir, c)
                  ELSE Ok(c)} :
            /\ cand' = c
            /\ IF r.raise # "none"
               THEN /\ pc' = "crashed"
                    /\ error' = r.raise
                    /\ UNCHANGED <<dep_paths, dep_path, last_file, toolFailed,
                                   wrong_arch, deps, examined, expanded>>
               ELSE \E a \in {detect_architecture(Fs, "ok", output_dir,
                                                  r.value)},
                       d \in {detect_dependencies(Fs, objTool, output_dir,
                                                  r.value)} :
                        ExamineWith(r.value, a, d, dep_paths \ {c})
    /\ UNCHANGED <<libs, targetNeeded, extracted, target_binary_arch, seen,
                   missing, current, exit_code, searches, skipped>>

\* Lines 151-166 without lines 159-160.
ExitCode_IgnoresMissing(wrongArch, missingNames) ==
    IF DOMAIN wrongArch # {} THEN 1 ELSE 0

\* Lines 151-166.
ExitCode(wrongArch, missingNames) ==
    IF DOMAIN wrongArch # {} \/ missingNames # {} THEN 1 ELSE 0

\* Lines 146-172: the queue is empty; report, clean up and exit.
Report ==
    /\ pc = "loop"
    /\ deps = <<>>
    /\ exit_code' = ExitCode(wrong_arch, missing)
    /\ \E clean \in BOOLEAN : extracted' = (extracted /\ ~clean)
    /\ pc' = "exited"
    /\ UNCHANGED <<libs, targetNeeded, error, target_binary_arch, deps, seen,
                   missing, wrong_arch, current, dep_paths, dep_path, cand,
                   last_file, toolFailed, searches, skipped, examined,
                   expanded>>

Next == Start \/ Pop \/ Examine \/ Report

Spec == Init /\ [][Next]_vars

-----------------------------------------------------------------------------
(* Properties                                                              *)

\* The image as extracted, whether or not it has since been removed.
ImageFs == [ext |-> TRUE, libs |-> libs, target |-> targetNeeded]

Walking == pc \in {"loop", "for", "crashed"}

\* C1: when the walk has finished, the exit code is 0 exactly when missing
\* and wrong_arch are both empty, and 1 otherwise.
C1_ExitCodeIffClean ==
    pc = "exited" =>
        /\ exit_code \in {0, 1}
        /\ exit_code = 0 <=> (missing = {} /\ DOMAIN wrong_arch = {})

C1_Witness ==
    pc = "exited" /\ exit_code = 1 /\ missing # {} /\ DOMAIN wrong_arch = {}

\* The names the search finds no path for in the image.
Unfound ==
    {n \in LibNames :
        find_dependencies_with_name(ImageFs, output_dir, n) = {}}

\* The names reachable from the names S through the NEEDED entries of the
\* libraries whose names are not in U.
RECURSIVE Reach(_, _)
Reach(U, S) ==
    LET T == S \cup UNION {Range(libs[n].needed) : n \in S \ U}
    IN IF T = S THEN S ELSE Reach(U, T)

\* C2: a name the search finds no path for is in missing from then on, no
\* candidate is examined or expanded for it, the names reachable only
\* through it are never seen, and after recording it the walk is back at
\* the head of its loop with the rest of the queue (or has finished).
C2_MissingIsTerminal ==
    seen # {} =>
        \A U \in {Unfound} :
            /\ \A n \in seen \cap U :
                 /\ n \in missing
                 /\ \A x \in expanded : x.name # n
                 /\ \A e \in examined : e.name # n
            /\ seen \subseteq Reach(U, Range(targetNeeded))
            /\ current \in missing => pc \in {"loop", "exited"}

C2_Witness ==
    /\ pc = "exited"
    /\ missing # {}
    /\ current \notin missing
    /\ seen # missing

\* C3: a candidate whose tag differs from the target's is in wrong_arch
\* under its path with its tag and its NEEDED entries are not enqueued;
\* NEEDED entries are enqueued only from candidates with the target's tag.
C3_MismatchNotExpanded ==
    /\ \A e \in examined :
         e.arch # target_binary_arch =>
             /\ e.path \in DOMAIN wrong_arch
             /\ wrong_arch[e.path] = e.arch
             /\ \A x \in expanded : x.path # e.path
    /\ \A x \in expanded : x.arch = target_binary_arch

C3_Witness ==
    /\ pc = "exited"
    /\ expanded # {}
    /\ \E e \in examined :
         /\ e.arch # target_binary_arch
         /\ detect_dependencies(ImageFs, "ok", output_dir, e.path).value # <<>>

\* C4: no name is searched for in the extraction root more than once.
C4_ProcessedAtMostOnce == \A n \in LibNames : searches[n] <= 1

C4_Witness == pc = "exited" /\ skipped # {}

\* C5: the walk reaches the reporting step: as long as no external tool
\* fails, it is never in a state other than "exited" with no step to take.
C5_WalkReachesReport == pc = "crashed" => toolFailed

\* C6: when `file` prints no architecture field for the path it is given
\* (and every tool ran), detect_architecture returns the empty tag without
\* raising, and a candidate so probed is recorded in wrong_arch.
C6_UnknownArchIsReported ==
    (last_file.ran /\ ~toolFailed /\ Len(Split(last_file.stdout)) < 2) =>
        /\ error = "none"
        /\ cand # NoPath =>
             /\ dep_path \in DOMAIN wrong_arch
             /\ wrong_arch[dep_path] = ""

\* C7: a run in which an external process failed or was absent never ends
\* with exit code 0.
C7_ToolFailureIsFatal == toolFailed => ~(pc = "exited" /\ exit_code = 0)

\* os.path.normpath on the parts of a path.
RECURSIVE Normalize(_, _)
Normalize(done, parts) ==
    IF parts = <<>> THEN done
    ELSE IF Head(parts) = ".."
    THEN Normalize(IF done = <<>> THEN done ELSE Front(done), Tail(parts))
    ELSE Normalize(Append(done, Head(parts)), Tail(parts))

\* The location a path of the script denotes lies under the extraction root.
InsideRoot(path) == IsPrefix(RootAbs, Normalize(<<>>, CWD \o path))

AbsoluteLink(c) ==
    /\ c # NoPath
    /\ is_symlink(ImageFs, c)
    /\ Head(readlink(ImageFs, c)) = "/"

\* C8: for a link with an absolute target, resolve_container_link returns
\* the target re-rooted under the extraction root, never the target itself,
\* and the result lies inside the root also when the target holds "..".
C8_AbsoluteLinkStaysInRoot ==
    (Walking /\ AbsoluteLink(cand)) =>
        /\ dep_path = output_dir \o Tail(readlink(ImageFs, cand))
        /\ dep_path # readlink(ImageFs, cand)
        /\ InsideRoot(dep_path)

\* The file of the image a candidate stands for: itself, or the file its
\* link leads to with the extraction root as the root directory.
RealFile(c) ==
    Walk(ImageFs, RootAbs, RootAbs,
         SubSeq(c, Len(output_dir) + 1, Len(c)), TRUE, LinkFuel)

\* The file the path handed to `file` and objdump denotes in their working
\* directory.
Denoted(path) == Open(ImageFs, ChildCwd(ImageFs, output_dir), path, TRUE)

\* C9: the path handed to detect_architecture and detect_dependencies for
\* a candidate denotes that candidate's real file inside the extraction
\* root.
C9_HandedPathIsRealFile ==
    (Walking /\ cand # NoPath /\ dep_path # NoPath) =>
        Denoted(dep_path) = RealFile(cand)

\* C10 as stated: seen, missing and the keys of wrong_arch are pairwise
\* disjoint.
C10_PairwiseDisjoint ==
    /\ seen \cap missing = {}
    /\ \A k \in DOMAIN wrong_arch : \A n \in seen \cup missing : k # <<n>>

\* C10 as amended: missing is a subset of seen, and no key of wrong_arch is
\* the path of a name in seen or missing.
C10_MissingWithinSeen ==
    /\ missing \subseteq seen
    /\ \A k \in DOMAIN wrong_arch : \A n \in seen : k # <<n>>

C10_Witness == pc = "exited" /\ missing # {} /\ DOMAIN wrong_arch # {}

====
